---- MODULE Spec2Model ----
(***************************************************************************)
(* Model of src/main.cpp: a clock / event logger on one board.  Four       *)
(* button interrupts (falling edge, debounced by a one-shot Timeout of     *)
(* 200 ms each) and one polling loop share the application state and four  *)
(* pending-trigger flags.  The polling loop edits a time string field by   *)
(* field and keeps a two-slot log in an EEPROM.                            *)
(*                                                                         *)
(* Strings are sequences of one-character strings; strftime and sscanf are *)
(* modelled character by character.  Interrupt handlers and Timeout        *)
(* callbacks run to completion (one action each); the polling loop is cut  *)
(* at every access to a variable it shares with the handlers.              *)
(***************************************************************************)
EXTENDS Integers, Sequences, FiniteSets, TLC

(***************************************************************************)
(* Program constants                                                       *)
(***************************************************************************)
TIME_STR_SIZE == 20
DEBOUNCE_TIME_MS == 200
LAST_EDIT_POS == 18
YEAR_BASE == 1900
LOG1_ADDR == 0
LOG2_ADDR == 32

(***************************************************************************)
(* Bounds of the model                                                     *)
(***************************************************************************)
\* steps of modelled time in one debounce time
TicksPerDebounce == 2
\* increment / decrement presses accepted while editing, per behaviour
MaxAdjust == 1
\* log records written per behaviour
MaxLog == 3
\* seconds the system clock advances per behaviour
MaxClockTicks == 1

IDLE == "IDLE"
LOG_TIME == "LOG_TIME"
DISPLAY_LOG == "DISPLAY_LOG"
SET_TIME == "SET_TIME"
AppState == {IDLE, LOG_TIME, DISPLAY_LOG, SET_TIME}

userButton == "userButton"
replayButton == "replayButton"
setTimeButton == "setTimeButton"
incrementButton == "incrementButton"
Buttons == {userButton, replayButton, setTimeButton, incrementButton}

(***************************************************************************)
(* Characters and strings                                                  *)
(***************************************************************************)
DigitChars == <<"0", "1", "2", "3", "4", "5", "6", "7", "8", "9">>

IsDigit(c) == \E d \in 1..10 : DigitChars[d] = c

DigitVal(c) == (CHOOSE d \in 1..10 : DigitChars[d] = c) - 1

\* the empty string: a buffer whose first byte is NUL
EmptyStr == << >>

\* decimal digits of n >= 0, no padding (printf %d)
RECURSIVE Dec(_)
Dec(n) == IF n < 10 THEN <<DigitChars[n + 1]>>
          ELSE Append(Dec(n \div 10), DigitChars[(n % 10) + 1])

\* signed decimal (strftime %Y)
SDec(n) == IF n < 0 THEN <<"-">> \o Dec(-n) ELSE Dec(n)

\* two digits, zero padded (strftime %m %d %H %M %S: printf %.2d)
Pad2(n) == IF n >= 0 /\ n < 10 THEN <<"0">> \o Dec(n) ELSE SDec(n)

\* the text strftime(.., "%Y/%m/%d %H:%M:%S", tm) wants to produce
TimeText(tm) ==
    SDec(tm.tm_year + YEAR_BASE) \o <<"/">> \o Pad2(tm.tm_mon + 1) \o <<"/">>
    \o Pad2(tm.tm_mday) \o <<" ">> \o Pad2(tm.tm_hour) \o <<":">>
    \o Pad2(tm.tm_min) \o <<":">> \o Pad2(tm.tm_sec)

\* strftime(buf, TIME_STR_SIZE, ...): the text when it fits with its NUL;
\* otherwise it returns 0 and the buffer's contents are indeterminate: any of
\* the old contents, the empty string, or the text cut to the buffer
StrfTime(old, tm) ==
    LET text == TimeText(tm)
    IN  IF Len(text) <= TIME_STR_SIZE - 1 THEN {text}
        ELSE {old, EmptyStr, SubSeq(text, 1, TIME_STR_SIZE - 1)}

RECURSIVE SkipSpace(_, _)
SkipSpace(s, i) == IF i <= Len(s) /\ s[i] = " " THEN SkipSpace(s, i + 1) ELSE i

RECURSIVE ScanDigits(_, _, _, _, _)
ScanDigits(s, i, w, acc, n) ==
    IF w > 0 /\ i <= Len(s) /\ IsDigit(s[i])
    THEN ScanDigits(s, i + 1, w - 1, acc * 10 + DigitVal(s[i]), n + 1)
    ELSE [val |-> acc, next |-> i, n |-> n]

\* sscanf %<w>d at position i: skip white space, an optional sign (it counts in
\* the width), then at most w characters of digits; fails without a digit
ScanInt(s, i, w) ==
    LET j == SkipSpace(s, i)
        signed == j <= Len(s) /\ s[j] \in {"-", "+"}
        neg == signed /\ s[j] = "-"
        d == ScanDigits(s, IF signed THEN j + 1 ELSE j,
                        IF signed THEN w - 1 ELSE w, 0, 0)
    IN  [ok |-> d.n > 0, val |-> IF neg THEN -d.val ELSE d.val, next |-> d.next]

\* a literal character of the sscanf format
ScanLit(s, i, c) == [ok |-> i <= Len(s) /\ s[i] = c, next |-> i + 1]

ZeroTm == [tm_year |-> 0, tm_mon |-> 0, tm_mday |-> 0,
           tm_hour |-> 0, tm_min |-> 0, tm_sec |-> 0]

\* parseEditBufferToTm: sscanf(buffer, "%4d/%2d/%2d %2d:%2d:%2d") = 6, then
\* the fields moved into a struct tm
parseEditBufferToTm(buffer) ==
    LET y == ScanInt(buffer, 1, 4)
        l1 == ScanLit(buffer, y.next, "/")
        mo == ScanInt(buffer, l1.next, 2)
        l2 == ScanLit(buffer, mo.next, "/")
        d == ScanInt(buffer, l2.next, 2)
        \* the blank of the format matches any run of white space, also none
        h == ScanInt(buffer, SkipSpace(buffer, d.next), 2)
        l3 == ScanLit(buffer, h.next, ":")
        mi == ScanInt(buffer, l3.next, 2)
        l4 == ScanLit(buffer, mi.next, ":")
        se == ScanInt(buffer, l4.next, 2)
        ok == /\ y.ok /\ l1.ok /\ mo.ok /\ l2.ok /\ d.ok
              /\ h.ok /\ l3.ok /\ mi.ok /\ l4.ok /\ se.ok
    IN  IF ok
        THEN [ok |-> TRUE,
              tm |-> [tm_year |-> y.val - YEAR_BASE, tm_mon |-> mo.val - 1,
                      tm_mday |-> d.val, tm_hour |-> h.val,
                      tm_min |-> mi.val, tm_sec |-> se.val]]
        ELSE [ok |-> FALSE, tm |-> ZeroTm]

(***************************************************************************)
(* Calendar: mktime / localtime of the system clock                        *)
(***************************************************************************)
IsLeap(y) == (y % 4 = 0 /\ y % 100 # 0) \/ y % 400 = 0

\* days of month mon (0-based) of calendar year y, as mktime counts them
DaysInMonth(y, mon) ==
    IF mon = 1 THEN (IF IsLeap(y) THEN 29 ELSE 28)
    ELSE IF mon \in {3, 5, 8, 10} THEN 30 ELSE 31

RECURSIVE NormDay(_, _, _)
NormDay(y, mon, d) ==
    IF d > DaysInMonth(y, mon)
    THEN NormDay(IF mon = 11 THEN y + 1 ELSE y, (mon + 1) % 12,
                 d - DaysInMonth(y, mon))
    ELSE IF d < 1
    THEN NormDay(IF mon = 0 THEN y - 1 ELSE y, (mon + 11) % 12,
                 d + DaysInMonth(IF mon = 0 THEN y - 1 ELSE y, (mon + 11) % 12))
    ELSE <<y, mon, d>>

\* localtime(mktime(tm)): the calendar time tm denotes, every field carried
\* into range (31 February becomes 3 March)
MkTime(tm) ==
    LET mi == tm.tm_min + (tm.tm_sec \div 60)
        h == tm.tm_hour + (mi \div 60)
        d == tm.tm_mday + (h \div 24)
        y == tm.tm_year + YEAR_BASE + (tm.tm_mon \div 12)
        ymd == NormDay(y, tm.tm_mon % 12, d)
    IN  [tm_year |-> ymd[1] - YEAR_BASE, tm_mon |-> ymd[2], tm_mday |-> ymd[3],
         tm_hour |-> h % 24, tm_min |-> mi % 60, tm_sec |-> tm.tm_sec % 60]

(***************************************************************************)
(* TimeFieldEditor: getMaxDay, getCurrentFieldName, adjustField, cursor    *)
(***************************************************************************)
\* getMaxDay(month, year): month is 1-based, the year is ignored
\* mutant: February has 29 days in a leap year
getMaxDayLeap(month, year) ==
    IF month \in {1, 3, 5, 7, 8, 10, 12} THEN 31
    ELSE IF month \in {4, 6, 9, 11} THEN 30
    ELSE IF month = 2 THEN (IF IsLeap(year) THEN 29 ELSE 28)
    ELSE 31

getMaxDay(month, year) ==
    IF month \in {1, 3, 5, 7, 8, 10, 12} THEN 31
    ELSE IF month \in {4, 6, 9, 11} THEN 30
    ELSE IF month = 2 THEN 28
    ELSE 31

getCurrentFieldName(pos) ==
    IF pos >= 0 /\ pos <= 3 THEN "Year"
    ELSE IF pos >= 5 /\ pos <= 6 THEN "Month"
    ELSE IF pos >= 8 /\ pos <= 9 THEN "Day"
    ELSE IF pos >= 11 /\ pos <= 12 THEN "Hour"
    ELSE IF pos >= 14 /\ pos <= 15 THEN "Minute"
    ELSE IF pos >= 17 /\ pos <= 18 THEN "Second"
    ELSE "Unknown"

\* wrap of an hour / minute / second: past the top to 0, below 0 to the top
WrapTo(v, top) == IF v > top THEN 0 ELSE IF v < 0 THEN top ELSE v

\* mutant: the Day field is adjusted without the wrap
adjustFieldDayNoWrap(timeinfo, pos, delta) ==
    LET field == getCurrentFieldName(pos)
    IN  IF field = "Year"
        THEN [timeinfo EXCEPT !.tm_year = @ + delta]
        ELSE IF field = "Month"
        THEN LET mon == WrapTo(timeinfo.tm_mon + delta, 11)
                 max_day == getMaxDay(mon + 1, timeinfo.tm_year + YEAR_BASE)
             IN  [timeinfo EXCEPT
                    !.tm_mon = mon,
                    !.tm_mday = IF @ > max_day THEN max_day ELSE @]
        ELSE IF field = "Day"
        THEN [timeinfo EXCEPT !.tm_mday = @ + delta]
        ELSE IF field = "Hour"
        THEN [timeinfo EXCEPT !.tm_hour = WrapTo(@ + delta, 23)]
        ELSE IF field = "Minute"
        THEN [timeinfo EXCEPT !.tm_min = WrapTo(@ + delta, 59)]
        ELSE IF field = "Second"
        THEN [timeinfo EXCEPT !.tm_sec = WrapTo(@ + delta, 59)]
        ELSE timeinfo

adjustField(timeinfo, pos, delta) ==
    LET field == getCurrentFieldName(pos)
    IN  IF field = "Year"
        THEN [timeinfo EXCEPT !.tm_year = @ + delta]
        ELSE IF field = "Month"
        THEN LET mon == WrapTo(timeinfo.tm_mon + delta, 11)
                 max_day == getMaxDay(mon + 1, timeinfo.tm_year + YEAR_BASE)
             IN  [timeinfo EXCEPT
                    !.tm_mon = mon,
                    !.tm_mday = IF @ > max_day THEN max_day ELSE @]
        ELSE IF field = "Day"
        THEN LET max_day == getMaxDay(timeinfo.tm_mon + 1,
                                      timeinfo.tm_year + YEAR_BASE)
                 mday == timeinfo.tm_mday + delta
             IN  [timeinfo EXCEPT
                    !.tm_mday = IF mday > max_day THEN 1
                                ELSE IF mday < 1 THEN max_day ELSE mday]
        ELSE IF field = "Hour"
        THEN [timeinfo EXCEPT !.tm_hour = WrapTo(@ + delta, 23)]
        ELSE IF field = "Minute"
        THEN [timeinfo EXCEPT !.tm_min = WrapTo(@ + delta, 59)]
        ELSE IF field = "Second"
        THEN [timeinfo EXCEPT !.tm_sec = WrapTo(@ + delta, 59)]
        ELSE timeinfo

Separators == {4, 7, 10, 13, 16}

\* mutant: the colon between hour and minute counts as editable
isEditablePositionButOne(pos) ==
    IF pos < 0 \/ pos >= TIME_STR_SIZE - 1 THEN FALSE
    ELSE pos \notin Separators \ {13}

isEditablePosition(pos) ==
    IF pos < 0 \/ pos >= TIME_STR_SIZE - 1 THEN FALSE
    ELSE pos \notin Separators

\* the do-while of the cursor advance: step cyclically through 0..18 until an
\* editable position, or until the start comes round again
RECURSIVE AdvanceLoop(_, _)
AdvanceLoop(pos, startPos) ==
    LET next == (pos + 1) % (TIME_STR_SIZE - 1)
    IN  IF next = startPos THEN next
        ELSE IF ~isEditablePosition(next) THEN AdvanceLoop(next, startPos)
        ELSE next

\* mutant: the cursor advance does not skip the separators
advanceCursorNoSkip(pos) == (pos + 1) % (TIME_STR_SIZE - 1)

advanceCursor(pos) == AdvanceLoop(pos, pos)

\* the while loop after currentEditPos = 0: the first editable position
RECURSIVE FirstEditable(_)
FirstEditable(pos) ==
    IF pos < TIME_STR_SIZE - 1 /\ ~isEditablePosition(pos)
    THEN FirstEditable(pos + 1) ELSE pos

(***************************************************************************)
(* State                                                                   *)
(***************************************************************************)
VARIABLES
    state,                \* volatile AppState state
    incrementPressed,     \* the four pending-trigger flags
    nextPositionPressed,
    timeSetRequested,
    decrementPressed,
    debouncing,           \* the four <button>_debouncing flags
    timer,                \* the four Timeout objects: ms left, -1 when not attached
    editBuffer,           \* char editBuffer[TIME_STR_SIZE]
    currentEditPos,
    clock,                \* the system time (time / set_time), broken down
    eeprom,               \* the two log records, by EEPROM address
    pc,                   \* the polling loop's position: the source line it is at
    oldLog,               \* storeCurrentTime's local
    display,              \* the screen last drawn on the LCD
    renders,              \* the screens drawn so far in this pass of the loop
    elapsed,              \* history: ms since each button's last accepted edge
    history,              \* history: the time strings written to LOG1, in order
    logPresses,           \* history: user-button presses that set LOG_TIME
    advances,             \* history: advance triggers consumed since SET_TIME was entered
    setTimeCalls,         \* history: set_time calls since SET_TIME was entered
    adjusts,              \* history: increment / decrement presses accepted in SET_TIME
    clockTicks,           \* history: seconds the clock has advanced
    posted,               \* history: the pending edit triggers in the order they were
                          \* raised, and whether one was consumed ahead of an older one
    leftIdle              \* history: the state has been other than IDLE since the
                          \* press that raised the pending timeSetRequested

flags == <<incrementPressed, nextPositionPressed, timeSetRequested, decrementPressed>>
debounce == <<debouncing, timer, elapsed>>
editor == <<editBuffer, currentEditPos>>
loop == <<pc, oldLog, display, renders>>
tallies == <<history, logPresses, advances, setTimeCalls, adjusts, clockTicks>>
ghosts == <<tallies, posted, leftIdle>>

\* the edit triggers: incrementPressed, decrementPressed, nextPositionPressed
EditTriggers == {"increment", "decrement", "advance"}
NonePosted == [order |-> << >>, overtaken |-> FALSE]

\* a handler sets the flag of trigger t, which was pending or not
Post(t, pending) ==
    IF pending THEN posted ELSE [posted EXCEPT !.order = Append(@, t)]

\* the loop clears the flag of trigger t
Take(t) ==
    [order |-> SelectSeq(posted.order, LAMBDA x : x # t),
     overtaken |-> posted.overtaken \/ (posted.order # << >> /\ Head(posted.order) # t)]
vars == <<state, flags, debounce, editor, clock, eeprom, loop, ghosts>>

\* the longest step of modelled time, in ms
TickMs == DEBOUNCE_TIME_MS \div TicksPerDebounce

\* elapsed is counted up to here: "longer ago than the debounce time"
LongAgo == DEBOUNCE_TIME_MS + TickMs

\* tm t = {0}; t.tm_year = 125; t.tm_mon = 0; t.tm_mday = 1; set_time(mktime(&t))
BootTime == [ZeroTm EXCEPT !.tm_year = 125, !.tm_mon = 0, !.tm_mday = 1]

Init ==
    /\ state = IDLE
    /\ incrementPressed = FALSE
    /\ nextPositionPressed = FALSE
    /\ timeSetRequested = FALSE
    /\ decrementPressed = FALSE
    /\ debouncing = [b \in Buttons |-> FALSE]
    /\ timer = [b \in Buttons |-> -1]
    /\ editBuffer = EmptyStr
    /\ currentEditPos = 0
    /\ clock = MkTime(BootTime)
    /\ eeprom = [a \in {LOG1_ADDR, LOG2_ADDR} |-> EmptyStr]
    /\ pc = "L477"
    /\ oldLog = EmptyStr
    /\ display = "blank"
    /\ renders = {}
    /\ elapsed = [b \in Buttons |-> LongAgo]
    /\ history = << >>
    /\ logPresses = 0
    /\ advances = 0
    /\ setTimeCalls = 0
    /\ adjusts = 0
    /\ clockTicks = 0
    /\ posted = NonePosted
    /\ leftIdle = FALSE

(***************************************************************************)
(* Time: the Timeout callbacks and the clocks                              *)
(***************************************************************************)
\* <button>_debouncing = true; debounce_<button>.attach(callback, 200 ms)
Arm(b) ==
    /\ debouncing' = [debouncing EXCEPT ![b] = TRUE]
    /\ timer' = [timer EXCEPT ![b] = DEBOUNCE_TIME_MS]
    /\ elapsed' = [elapsed EXCEPT ![b] = 0]

\* debounce_<button>_callback: <button>_debouncing = false
debounce_callback(b) == [debouncing EXCEPT ![b] = FALSE]

\* the Timeout of button b is due and runs its callback
DebounceCallback(b) ==
    /\ timer[b] = 0
    /\ debouncing' = debounce_callback(b)
    /\ timer' = [timer EXCEPT ![b] = -1]
    /\ UNCHANGED <<state, flags, elapsed, editor, clock, eeprom, loop, ghosts>>

Min(a, b) == IF a < b THEN a ELSE b

\* the time to the next Timeout that is attached, at most TickMs
TimeStep ==
    LET due == {timer[b] : b \in {x \in Buttons : timer[x] > 0}}
    IN  IF due = {} THEN TickMs
        ELSE Min(TickMs, CHOOSE d \in due : \A e \in due : d <= e)

\* Time in the small: TimeStep ms pass.  A Timeout that is due runs its
\* callback before more time passes
Tick ==
    /\ \A b \in Buttons : timer[b] # 0
    /\ \E b \in Buttons : timer[b] > 0 \/ elapsed[b] < LongAgo
    /\ timer' = [b \in Buttons |-> IF timer[b] > 0 THEN timer[b] - TimeStep ELSE timer[b]]
    /\ elapsed' = [b \in Buttons |-> Min(LongAgo, elapsed[b] + TimeStep)]
    /\ UNCHANGED <<state, flags, debouncing, editor, clock, eeprom, loop, ghosts>>

\* Time in the large: more than DEBOUNCE_TIME_MS pass without an edge, so every
\* attached Timeout has run its callback
RECURSIVE AllCallbacks(_, _)
AllCallbacks(d, bs) ==
    IF bs = {} THEN d
    ELSE LET b == CHOOSE x \in bs : TRUE
         IN  AllCallbacks([d EXCEPT ![b] = debounce_callback(b)[b]], bs \ {b})

Elapse ==
    /\ \E b \in Buttons : timer[b] >= 0
    /\ debouncing' = AllCallbacks(debouncing, {b \in Buttons : timer[b] >= 0})
    /\ timer' = [b \in Buttons |-> -1]
    /\ elapsed' = [b \in Buttons |-> LongAgo]
    /\ UNCHANGED <<state, flags, editor, clock, eeprom, loop, ghosts>>

\* The bounds on the environment: a behaviour spends presses either on log
\* records, with the clock running, or on adjustments of the edited time
MayLog == logPresses < MaxLog /\ adjusts = 0
MayAdjust == adjusts < MaxAdjust /\ logPresses = 0 /\ clockTicks = 0
MayTick == clockTicks < MaxClockTicks /\ adjusts = 0

\* the system clock steps to the next second
ClockTick ==
    /\ MayTick
    /\ clockTicks' = clockTicks + 1
    /\ clock' = MkTime([clock EXCEPT !.tm_sec = @ + 1])
    /\ UNCHANGED <<state, flags, debounce, editor, eeprom, loop,
                   history, logPresses, advances, setTimeCalls, adjusts, posted, leftIdle>>

(***************************************************************************)
(* The interrupt handlers: one falling edge on a button                    *)
(***************************************************************************)
\* mutant: an edge dropped in the cooldown attaches the Timeout again
onUserButtonPressedRearms ==
    IF debouncing[userButton]
    THEN /\ timer' = [timer EXCEPT ![userButton] = DEBOUNCE_TIME_MS]
         /\ UNCHANGED <<state, flags, debouncing, elapsed, editor, clock, eeprom,
                        loop, ghosts>>
    ELSE /\ state = IDLE => MayLog
         /\ Arm(userButton)
         /\ state' = IF state = IDLE THEN LOG_TIME ELSE state
         /\ logPresses' = IF state = IDLE THEN logPresses + 1 ELSE logPresses
         /\ leftIdle' = IF state = IDLE /\ timeSetRequested THEN TRUE ELSE leftIdle
         /\ UNCHANGED <<flags, editor, clock, eeprom, loop,
                        history, advances, setTimeCalls, adjusts, clockTicks, posted>>

\* mutant: the press asks for a log record whatever the state
onUserButtonPressedAnyState ==
    IF debouncing[userButton]
    THEN UNCHANGED vars
    ELSE /\ MayLog
         /\ Arm(userButton)
         /\ state' = LOG_TIME
         /\ logPresses' = logPresses + 1
         /\ leftIdle' = IF state = IDLE /\ timeSetRequested THEN TRUE ELSE leftIdle
         /\ UNCHANGED <<flags, editor, clock, eeprom, loop,
                        history, advances, setTimeCalls, adjusts, clockTicks, posted>>

\* mutant: the handler writes the log record itself
onUserButtonPressedStores ==
    IF debouncing[userButton]
    THEN UNCHANGED vars
    ELSE /\ state = IDLE => MayLog
         /\ Arm(userButton)
         /\ eeprom' = IF state = IDLE
                      THEN [eeprom EXCEPT ![LOG1_ADDR] = TimeText(clock)]
                      ELSE eeprom
         /\ history' = IF state = IDLE THEN Append(history, TimeText(clock)) ELSE history
         /\ logPresses' = IF state = IDLE THEN logPresses + 1 ELSE logPresses
         /\ UNCHANGED <<state, flags, editor, clock, loop,
                        advances, setTimeCalls, adjusts, clockTicks, posted, leftIdle>>

onUserButtonPressed ==
    IF debouncing[userButton]
    THEN UNCHANGED vars
    ELSE /\ state = IDLE => MayLog
         /\ Arm(userButton)
         /\ state' = IF state = IDLE THEN LOG_TIME ELSE state
         /\ logPresses' = IF state = IDLE THEN logPresses + 1 ELSE logPresses
         /\ leftIdle' = IF state = IDLE /\ timeSetRequested THEN TRUE ELSE leftIdle
         /\ UNCHANGED <<flags, editor, clock, eeprom, loop,
                        history, advances, setTimeCalls, adjusts, clockTicks, posted>>

onReplayButtonPressed ==
    IF debouncing[replayButton]
    THEN UNCHANGED vars
    ELSE /\ state = SET_TIME => MayAdjust
         /\ Arm(replayButton)
         /\ decrementPressed' = IF state = SET_TIME THEN TRUE ELSE decrementPressed
         /\ state' = IF state = IDLE THEN DISPLAY_LOG
                     ELSE IF state = DISPLAY_LOG THEN IDLE ELSE state
         /\ adjusts' = IF state = SET_TIME THEN adjusts + 1 ELSE adjusts
         /\ posted' = IF state = SET_TIME THEN Post("decrement", decrementPressed) ELSE posted
         /\ leftIdle' = IF state = IDLE /\ timeSetRequested THEN TRUE ELSE leftIdle
         /\ UNCHANGED <<incrementPressed, nextPositionPressed, timeSetRequested,
                        editor, clock, eeprom, loop,
                        history, logPresses, advances, setTimeCalls, clockTicks>>

\* mutant: the handler enters SET_TIME itself
onSetTimeButtonPressedSetsMode ==
    IF debouncing[setTimeButton]
    THEN UNCHANGED vars
    ELSE /\ Arm(setTimeButton)
         /\ state' = IF state = IDLE THEN SET_TIME ELSE state
         /\ nextPositionPressed' = IF state = SET_TIME THEN TRUE ELSE nextPositionPressed
         /\ posted' = IF state = SET_TIME THEN Post("advance", nextPositionPressed) ELSE posted
         /\ UNCHANGED <<timeSetRequested, incrementPressed, decrementPressed,
                        editor, clock, eeprom, loop, tallies, leftIdle>>

onSetTimeButtonPressed ==
    IF debouncing[setTimeButton]
    THEN UNCHANGED vars
    ELSE /\ Arm(setTimeButton)
         /\ timeSetRequested' = IF state = IDLE THEN TRUE ELSE timeSetRequested
         /\ nextPositionPressed' = IF state = SET_TIME THEN TRUE ELSE nextPositionPressed
         /\ posted' = IF state = SET_TIME THEN Post("advance", nextPositionPressed) ELSE posted
         /\ leftIdle' = IF state = IDLE THEN FALSE ELSE leftIdle
         /\ UNCHANGED <<state, incrementPressed, decrementPressed,
                        editor, clock, eeprom, loop, tallies>>

\* mutant: the trigger is posted whatever the state
onIncrementButtonPressedAnyState ==
    IF debouncing[incrementButton]
    THEN UNCHANGED vars
    ELSE /\ Arm(incrementButton)
         /\ incrementPressed' = TRUE
         /\ posted' = Post("increment", incrementPressed)
         /\ UNCHANGED <<state, nextPositionPressed, timeSetRequested, decrementPressed,
                        editor, clock, eeprom, loop, tallies, leftIdle>>

onIncrementButtonPressed ==
    IF debouncing[incrementButton]
    THEN UNCHANGED vars
    ELSE /\ state = SET_TIME => MayAdjust
         /\ Arm(incrementButton)
         /\ incrementPressed' = IF state = SET_TIME THEN TRUE ELSE incrementPressed
         /\ adjusts' = IF state = SET_TIME THEN adjusts + 1 ELSE adjusts
         /\ posted' = IF state = SET_TIME THEN Post("increment", incrementPressed) ELSE posted
         /\ UNCHANGED <<state, nextPositionPressed, timeSetRequested, decrementPressed,
                        editor, clock, eeprom, loop,
                        history, logPresses, advances, setTimeCalls, clockTicks, leftIdle>>

(***************************************************************************)
(* The polling loop, main's while (1), one action per step                 *)
(***************************************************************************)
\* the variables only the handlers and the Timeouts write
isrOnly == <<debounce, logPresses, adjusts, clockTicks>>

\* if (timeSetRequested && state == IDLE)
CheckTimeSetRequested ==
    /\ pc = "L477"
    /\ pc' = IF timeSetRequested /\ state = IDLE THEN "L478" ELSE "L494"
    /\ UNCHANGED <<state, flags, editor, clock, eeprom, oldLog, display, renders,
                   history, advances, setTimeCalls, posted, leftIdle, isrOnly>>

\* timeSetRequested = false
ClearTimeSetRequested ==
    /\ pc = "L478"
    /\ timeSetRequested' = FALSE
    /\ pc' = "L479"
    /\ UNCHANGED <<state, incrementPressed, nextPositionPressed, decrementPressed,
                   editor, clock, eeprom, oldLog, display, renders,
                   history, advances, setTimeCalls, posted, leftIdle, isrOnly>>

\* state = SET_TIME; the clock formatted into editBuffer; the cursor on the
\* first editable position; updateSetTimeDisplay()
EnterSetTime ==
    /\ pc = "L479"
    /\ state' = SET_TIME
    /\ editBuffer' \in StrfTime(editBuffer, clock)
    /\ currentEditPos' = FirstEditable(0)
    /\ display' = "edit"
    /\ renders' = renders \cup {"edit"}
    /\ advances' = 0
    /\ setTimeCalls' = 0
    /\ pc' = "L494"
    /\ posted' = [posted EXCEPT !.overtaken = FALSE]
    /\ leftIdle' = FALSE
    /\ UNCHANGED <<flags, clock, eeprom, oldLog, history, isrOnly>>

\* if (state == LOG_TIME)
CheckLogTime ==
    /\ pc = "L494"
    /\ pc' = IF state = LOG_TIME THEN "L263" ELSE "L498"
    /\ UNCHANGED <<state, flags, editor, clock, eeprom, oldLog, display, renders,
                   history, advances, setTimeCalls, posted, leftIdle, isrOnly>>

\* storeCurrentTime: ReadEEPROM(EEPROM_ADDR, LOG1_ADDR, oldLog, TIME_STR_SIZE)
StoreRead ==
    /\ pc = "L263"
    /\ oldLog' = eeprom[LOG1_ADDR]
    /\ pc' = "L265"
    /\ UNCHANGED <<state, flags, editor, clock, eeprom, display, renders,
                   history, advances, setTimeCalls, posted, leftIdle, isrOnly>>

\* mutant: the new record is written before the backup is taken
StoreBackupWritesNewFirst ==
    /\ pc = "L265"
    /\ \E newLog \in StrfTime(EmptyStr, clock) :
          eeprom' = [eeprom EXCEPT ![LOG1_ADDR] = newLog]
    /\ pc' = "L271"
    /\ UNCHANGED <<state, flags, editor, clock, oldLog, display, renders,
                   history, advances, setTimeCalls, posted, leftIdle, isrOnly>>

\* mutant: the backup is skipped
StoreBackupSkipped ==
    /\ pc = "L265"
    /\ pc' = "L271"
    /\ UNCHANGED <<state, flags, editor, clock, eeprom, oldLog, display, renders,
                   history, advances, setTimeCalls, posted, leftIdle, isrOnly>>

\* storeCurrentTime: if (oldLog[0] != '\0') WriteEEPROM(.., LOG2_ADDR, oldLog, ..)
StoreBackup ==
    /\ pc = "L265"
    /\ eeprom' = IF oldLog # EmptyStr THEN [eeprom EXCEPT ![LOG2_ADDR] = oldLog]
                 ELSE eeprom
    /\ pc' = "L271"
    /\ UNCHANGED <<state, flags, editor, clock, oldLog, display, renders,
                   history, advances, setTimeCalls, posted, leftIdle, isrOnly>>

\* storeCurrentTime: the clock formatted into newLog and written to LOG1_ADDR
StoreWrite ==
    /\ pc = "L271"
    /\ \E newLog \in StrfTime(EmptyStr, clock) :
          /\ eeprom' = [eeprom EXCEPT ![LOG1_ADDR] = newLog]
          /\ history' = Append(history, newLog)
    /\ pc' = "L496"
    /\ UNCHANGED <<state, flags, editor, clock, oldLog, display, renders,
                   advances, setTimeCalls, posted, leftIdle, isrOnly>>

\* state = IDLE, after storeCurrentTime()
LogDone ==
    /\ pc = "L496"
    /\ state' = IDLE
    /\ pc' = "L498"
    /\ UNCHANGED <<flags, editor, clock, eeprom, oldLog, display, renders,
                   history, advances, setTimeCalls, posted, leftIdle, isrOnly>>

\* if (state == DISPLAY_LOG) displayLogs()
CheckDisplayLog ==
    /\ pc = "L498"
    /\ display' = IF state = DISPLAY_LOG THEN "log" ELSE display
    /\ renders' = IF state = DISPLAY_LOG THEN renders \cup {"log"} ELSE renders
    /\ pc' = "L501"
    /\ UNCHANGED <<state, flags, editor, clock, eeprom, oldLog,
                   history, advances, setTimeCalls, posted, leftIdle, isrOnly>>

\* mutant: the edit view is drawn in every pass that finds SET_TIME
CheckSetTimeRenders ==
    /\ pc = "L501"
    /\ pc' = IF state = SET_TIME THEN "L503" ELSE "L553"
    /\ display' = IF state = SET_TIME THEN "edit" ELSE display
    /\ renders' = IF state = SET_TIME THEN renders \cup {"edit"} ELSE renders
    /\ UNCHANGED <<state, flags, editor, clock, eeprom, oldLog,
                   history, advances, setTimeCalls, posted, leftIdle, isrOnly>>

\* if (state == SET_TIME)
CheckSetTime ==
    /\ pc = "L501"
    /\ pc' = IF state = SET_TIME THEN "L503" ELSE "L553"
    /\ UNCHANGED <<state, flags, editor, clock, eeprom, oldLog, display, renders,
                   history, advances, setTimeCalls, posted, leftIdle, isrOnly>>

\* parseEditBufferToTm, adjustField by delta, strftime back into editBuffer
AdjustBuffer(delta) ==
    LET p == parseEditBufferToTm(editBuffer)
    IN  IF p.ok
        THEN editBuffer' \in StrfTime(editBuffer, adjustField(p.tm, currentEditPos, delta))
        ELSE editBuffer' = editBuffer

\* mutant: a pending increment waits for the advance raised before it
HandleIncrementAfterAdvance ==
    /\ pc = "L503"
    /\ IF incrementPressed /\ ~(posted.order # << >> /\ Head(posted.order) = "advance")
       THEN /\ incrementPressed' = FALSE
            /\ AdjustBuffer(1)
            /\ display' = "edit"
            /\ renders' = renders \cup {"edit"}
            /\ posted' = Take("increment")
       ELSE UNCHANGED <<incrementPressed, editBuffer, display, renders, posted>>
    /\ pc' = "L516"
    /\ UNCHANGED <<state, nextPositionPressed, timeSetRequested, decrementPressed,
                   currentEditPos, clock, eeprom, oldLog,
                   history, advances, setTimeCalls, leftIdle, isrOnly>>

\* if (incrementPressed) { incrementPressed = false; ... updateSetTimeDisplay(); }
HandleIncrement ==
    /\ pc = "L503"
    /\ IF incrementPressed
       THEN /\ incrementPressed' = FALSE
            /\ AdjustBuffer(1)
            /\ display' = "edit"
            /\ renders' = renders \cup {"edit"}
            /\ posted' = Take("increment")
       ELSE UNCHANGED <<incrementPressed, editBuffer, display, renders, posted>>
    /\ pc' = "L516"
    /\ UNCHANGED <<state, nextPositionPressed, timeSetRequested, decrementPressed,
                   currentEditPos, clock, eeprom, oldLog,
                   history, advances, setTimeCalls, leftIdle, isrOnly>>

\* if (decrementPressed) { decrementPressed = false; ... updateSetTimeDisplay(); }
HandleDecrement ==
    /\ pc = "L516"
    /\ IF decrementPressed
       THEN /\ decrementPressed' = FALSE
            /\ AdjustBuffer(-1)
            /\ display' = "edit"
            /\ renders' = renders \cup {"edit"}
            /\ posted' = Take("decrement")
       ELSE UNCHANGED <<decrementPressed, editBuffer, display, renders, posted>>
    /\ pc' = "L529"
    /\ UNCHANGED <<state, incrementPressed, nextPositionPressed, timeSetRequested,
                   currentEditPos, clock, eeprom, oldLog,
                   history, advances, setTimeCalls, leftIdle, isrOnly>>

\* mutant: the commit is taken one position early
isLastFieldEarly(pos) == pos = LAST_EDIT_POS - 1

\* if (currentEditPos == 18): the commit's test
isLastField(pos) == pos = LAST_EDIT_POS

\* mutant: the commit calls set_time whether the edit buffer parsed or not
HandleNextPositionSetsAnyway ==
    /\ pc = "L529"
    /\ IF nextPositionPressed
       THEN /\ nextPositionPressed' = FALSE
            /\ advances' = advances + 1
            /\ posted' = Take("advance")
            /\ IF isLastField(currentEditPos)
               THEN LET p == parseEditBufferToTm(editBuffer)
                    IN  /\ clock' = MkTime(p.tm)
                        /\ setTimeCalls' = setTimeCalls + 1
                        /\ pc' = "L540"
                        /\ UNCHANGED <<currentEditPos, display, renders>>
               ELSE /\ currentEditPos' = advanceCursor(currentEditPos)
                    /\ display' = "edit"
                    /\ renders' = renders \cup {"edit"}
                    /\ pc' = "L553"
                    /\ UNCHANGED <<clock, setTimeCalls>>
       ELSE /\ pc' = "L553"
            /\ UNCHANGED <<nextPositionPressed, advances, currentEditPos, display, renders,
                           clock, setTimeCalls, posted>>
    /\ UNCHANGED <<state, incrementPressed, timeSetRequested, decrementPressed,
                   editBuffer, eeprom, oldLog, history, leftIdle, isrOnly>>

\* if (nextPositionPressed) { nextPositionPressed = false; at the last position
\* parse and set_time (state = IDLE is the next step), else move the cursor and
\* updateSetTimeDisplay() }
HandleNextPosition ==
    /\ pc = "L529"
    /\ IF nextPositionPressed
       THEN /\ nextPositionPressed' = FALSE
            /\ advances' = advances + 1
            /\ posted' = Take("advance")
            /\ IF isLastField(currentEditPos)
               THEN LET p == parseEditBufferToTm(editBuffer)
                    IN  /\ clock' = IF p.ok THEN MkTime(p.tm) ELSE clock
                        /\ setTimeCalls' = IF p.ok THEN setTimeCalls + 1 ELSE setTimeCalls
                        /\ pc' = "L540"
                        /\ UNCHANGED <<currentEditPos, display, renders>>
               ELSE /\ currentEditPos' = advanceCursor(currentEditPos)
                    /\ display' = "edit"
                    /\ renders' = renders \cup {"edit"}
                    /\ pc' = "L553"
                    /\ UNCHANGED <<clock, setTimeCalls>>
       ELSE /\ pc' = "L553"
            /\ UNCHANGED <<nextPositionPressed, advances, currentEditPos, display, renders,
                           clock, setTimeCalls, posted>>
    /\ UNCHANGED <<state, incrementPressed, timeSetRequested, decrementPressed,
                   editBuffer, eeprom, oldLog, history, leftIdle, isrOnly>>

\* state = IDLE after the commit, then updateSetTimeDisplay()
CommitToIdle ==
    /\ pc = "L540"
    /\ state' = IDLE
    /\ display' = "edit"
    /\ renders' = renders \cup {"edit"}
    /\ pc' = "L553"
    /\ UNCHANGED <<flags, editor, clock, eeprom, oldLog,
                   history, advances, setTimeCalls, posted, leftIdle, isrOnly>>

\* if (state == IDLE) updateDisplay()
CheckIdle ==
    /\ pc = "L553"
    /\ display' = IF state = IDLE THEN "time" ELSE display
    /\ renders' = IF state = IDLE THEN renders \cup {"time"} ELSE renders
    /\ pc' = "L556"
    /\ UNCHANGED <<state, flags, editor, clock, eeprom, oldLog,
                   history, advances, setTimeCalls, posted, leftIdle, isrOnly>>

\* thread_sleep_for(50), and round again
Sleep ==
    /\ pc = "L556"
    /\ pc' = "L477"
    /\ renders' = {}
    /\ UNCHANGED <<state, flags, editor, clock, eeprom, oldLog, display,
                   history, advances, setTimeCalls, posted, leftIdle, isrOnly>>

PollingLoop ==
    \/ CheckTimeSetRequested
    \/ ClearTimeSetRequested
    \/ EnterSetTime
    \/ CheckLogTime
    \/ StoreRead
    \/ StoreBackup
    \/ StoreWrite
    \/ LogDone
    \/ CheckDisplayLog
    \/ CheckSetTime
    \/ HandleIncrement
    \/ HandleDecrement
    \/ HandleNextPosition
    \/ CommitToIdle
    \/ CheckIdle
    \/ Sleep

Interrupt ==
    \/ onUserButtonPressed
    \/ onReplayButtonPressed
    \/ onSetTimeButtonPressed
    \/ onIncrementButtonPressed

\* The whole program, time in the large
Next ==
    \/ Interrupt
    \/ Elapse
    \/ ClockTick
    \/ PollingLoop

Spec == Init /\ [][Next]_vars

(***************************************************************************)
(* The interrupt side alone, time in the small: the handlers and the       *)
(* Timeouts while the polling loop sleeps in thread_sleep_for, in each     *)
(* mode the loop can sleep in                                              *)
(***************************************************************************)
InitDebounce ==
    /\ state \in AppState
    /\ incrementPressed = FALSE
    /\ nextPositionPressed = FALSE
    /\ timeSetRequested = FALSE
    /\ decrementPressed = FALSE
    /\ debouncing = [b \in Buttons |-> FALSE]
    /\ timer = [b \in Buttons |-> -1]
    /\ editBuffer = IF state = SET_TIME THEN TimeText(MkTime(BootTime)) ELSE EmptyStr
    /\ currentEditPos = 0
    /\ clock = MkTime(BootTime)
    /\ eeprom = [a \in {LOG1_ADDR, LOG2_ADDR} |-> EmptyStr]
    /\ pc = "L556"
    /\ oldLog = EmptyStr
    /\ display = IF state = SET_TIME THEN "edit"
                 ELSE IF state = DISPLAY_LOG THEN "log" ELSE "time"
    /\ renders = IF state = IDLE THEN {"time"}
                 ELSE IF state = DISPLAY_LOG THEN {"log"} ELSE {}
    /\ elapsed = [b \in Buttons |-> LongAgo]
    /\ history = << >>
    /\ logPresses = IF state = LOG_TIME THEN 1 ELSE 0
    /\ advances = 0
    /\ setTimeCalls = 0
    /\ adjusts = 0
    /\ clockTicks = 0
    /\ posted = NonePosted
    /\ leftIdle = FALSE

NextDebounce ==
    \/ Interrupt
    \/ \E b \in Buttons : DebounceCallback(b)
    \/ Tick

SpecDebounce == InitDebounce /\ [][NextDebounce]_vars

(***************************************************************************)
(* The adjust steps of the editor on their own: the loop stands in         *)
(* SET_TIME before the increment test, the edit buffer is the snapshot of  *)
(* a sample of clock times, the cursor is at any editable position and at  *)
(* least one adjust trigger is pending.  The buffer is the snapshot itself  *)
(* or the snapshot with its year taken to FarYear by adjusts of the Year    *)
(* field, which has no bound.                                               *)
(***************************************************************************)
SampleYears == {125, 128}
FarYear == 9999 - YEAR_BASE
SampleDays == {1, 28, 29, 30, 31}
SampleTimes ==
    {[tm_year |-> y, tm_mon |-> mon, tm_mday |-> d,
      tm_hour |-> h, tm_min |-> mi, tm_sec |-> sec] :
        y \in SampleYears, mon \in 0..11,
        d \in SampleDays, h \in {0, 23}, mi \in {0, 59}, sec \in {0, 59}}

InitAdjust ==
    /\ state = SET_TIME
    /\ incrementPressed \in BOOLEAN
    /\ decrementPressed \in BOOLEAN
    /\ incrementPressed \/ decrementPressed
    /\ nextPositionPressed = FALSE
    /\ timeSetRequested = FALSE
    /\ debouncing = [b \in Buttons |-> FALSE]
    /\ timer = [b \in Buttons |-> -1]
    /\ clock \in {tm \in SampleTimes :
                    tm.tm_mday <= DaysInMonth(tm.tm_year + YEAR_BASE, tm.tm_mon)}
    /\ editBuffer \in {TimeText(clock), TimeText([clock EXCEPT !.tm_year = FarYear])}
    /\ currentEditPos \in {pos \in 0..(TIME_STR_SIZE - 2) : isEditablePosition(pos)}
    /\ eeprom = [a \in {LOG1_ADDR, LOG2_ADDR} |-> EmptyStr]
    /\ pc = "L503"
    /\ oldLog = EmptyStr
    /\ display = "edit"
    /\ renders = {}
    /\ elapsed = [b \in Buttons |-> LongAgo]
    /\ history = << >>
    /\ logPresses = 0
    /\ advances = 0
    /\ setTimeCalls = 0
    /\ adjusts = 0
    /\ clockTicks = 0
    /\ posted \in {[order |-> o, overtaken |-> FALSE] :
                    o \in {q \in {<<"increment">>, <<"decrement">>,
                                  <<"increment", "decrement">>, <<"decrement", "increment">>} :
                             /\ incrementPressed <=> \E k \in 1..Len(q) : q[k] = "increment"
                             /\ decrementPressed <=> \E k \in 1..Len(q) : q[k] = "decrement"}}
    /\ leftIdle = FALSE

NextAdjust ==
    \/ HandleIncrement
    \/ HandleDecrement

SpecAdjust == InitAdjust /\ [][NextAdjust]_vars

(***************************************************************************)
(* The SET_TIME block of one pass after strftime has overflowed: the loop  *)
(* stands in SET_TIME before the increment test with at least one edit     *)
(* trigger pending and the cursor at any editable position.  The clock     *)
(* stands in year 9999, the edit buffer was its snapshot, and an adjust    *)
(* took the Year field to 10000: the buffer is any of the contents that    *)
(* strftime call can leave, the snapshot among them.                       *)
(***************************************************************************)
\* the orders in which the triggers of the set pending can have been raised
Orders(pending) ==
    {q \in [1..Cardinality(pending) -> pending] :
        \A i, j \in 1..Cardinality(pending) : q[i] = q[j] => i = j}

CommitTimes ==
    {[tm_year |-> FarYear, tm_mon |-> mon, tm_mday |-> 1,
      tm_hour |-> 0, tm_min |-> 0, tm_sec |-> sec] : mon \in {0, 11}, sec \in {0, 59}}

InitCommit ==
    /\ state = SET_TIME
    /\ incrementPressed \in BOOLEAN
    /\ decrementPressed \in BOOLEAN
    /\ nextPositionPressed \in BOOLEAN
    /\ incrementPressed \/ decrementPressed \/ nextPositionPressed
    /\ timeSetRequested = FALSE
    /\ debouncing = [b \in Buttons |-> FALSE]
    /\ timer = [b \in Buttons |-> -1]
    /\ clock \in CommitTimes
    /\ editBuffer \in StrfTime(TimeText(clock), adjustField(clock, 0, 1))
    /\ currentEditPos \in {pos \in 0..(TIME_STR_SIZE - 2) : isEditablePosition(pos)}
    /\ eeprom = [a \in {LOG1_ADDR, LOG2_ADDR} |-> EmptyStr]
    /\ pc = "L503"
    /\ oldLog = EmptyStr
    /\ display = "edit"
    /\ renders = {}
    /\ elapsed = [b \in Buttons |-> LongAgo]
    /\ history = << >>
    /\ logPresses = 0
    /\ advances = 0
    /\ setTimeCalls = 0
    /\ adjusts = 0
    /\ clockTicks = 0
    /\ posted \in {[order |-> o, overtaken |-> FALSE] :
                    o \in Orders({t \in EditTriggers :
                                    \/ t = "increment" /\ incrementPressed
                                    \/ t = "decrement" /\ decrementPressed
                                    \/ t = "advance" /\ nextPositionPressed})}
    /\ leftIdle = FALSE

NextCommit ==
    \/ HandleIncrement
    \/ HandleDecrement
    \/ HandleNextPosition
    \/ CommitToIdle

SpecCommit == InitCommit /\ [][NextCommit]_vars

(***************************************************************************)
(* Properties                                                              *)
(***************************************************************************)
\* the handler of button b
Handler(b) ==
    CASE b = userButton -> onUserButtonPressed
      [] b = replayButton -> onReplayButtonPressed
      [] b = setTimeButton -> onSetTimeButtonPressed
      [] b = incrementButton -> onIncrementButtonPressed

\* C1: an edge on a button less than 200 ms after the button's last accepted
\* edge finds the debounce flag set and is dropped; an edge more than 200 ms
\* after it finds the flag clear and is accepted as a logical press, which
\* attaches the Timeout for 200 ms.  A dropped edge changes nothing: it neither
\* attaches the Timeout again nor moves its time.
C1_Debounce ==
    /\ [](\A b \in Buttons :
            /\ elapsed[b] < DEBOUNCE_TIME_MS =>
                  debouncing[b] /\ timer[b] = DEBOUNCE_TIME_MS - elapsed[b]
            /\ elapsed[b] > DEBOUNCE_TIME_MS => ~debouncing[b])
    /\ [][\A b \in Buttons :
            Handler(b) =>
               IF debouncing[b]
               THEN UNCHANGED vars
               ELSE /\ debouncing'[b]
                    /\ timer'[b] = DEBOUNCE_TIME_MS
                    /\ elapsed'[b] = 0]_vars

\* C1 witness: the replay button, pressed in IDLE, has been accepted a second
\* time (the state is IDLE again) while the set-time button is in the middle
\* of its cooldown
C1_Witness ==
    /\ display = "time" /\ state = IDLE
    /\ debouncing[replayButton] /\ elapsed[replayButton] = 0
    /\ debouncing[setTimeButton]
    /\ elapsed[setTimeButton] > 0 /\ elapsed[setTimeButton] < DEBOUNCE_TIME_MS

C3_LogPressRecordedOnce ==
    [][/\ (state = LOG_TIME /\ state' # LOG_TIME) =>
             (state' = IDLE /\ Len(history') = logPresses')
       /\ Len(history') <= logPresses']_vars

\* the (button, state) pairs that are no row of the transition table
NoRow(b, st) ==
    \/ b = userButton /\ st # IDLE
    \/ b = replayButton /\ st = LOG_TIME
    \/ b = setTimeButton /\ st \in {LOG_TIME, DISPLAY_LOG}
    \/ b = incrementButton /\ st # SET_TIME

\* C4: a press accepted on a button in a state that is no row of the table
\* leaves the state, the edit buffer, the cursor, both log slots and the clock
\* unchanged, and posts no trigger and moves nothing of the polling loop, so
\* the passes that follow are those of a run without the press
C4_NoOpLaw ==
    [][\A b \in Buttons :
          (Handler(b) /\ ~debouncing[b] /\ NoRow(b, state)) =>
             UNCHANGED <<state, flags, editBuffer, currentEditPos, eeprom, clock, loop>>]_vars

\* C4 witness: the increment button has been accepted, and never in SET_TIME
C4_Witness ==
    /\ state = LOG_TIME /\ debouncing[incrementButton]
    /\ adjusts = 0 /\ ~incrementPressed

\* the n-th last string written to the log, empty when there is none
Written(n) ==
    IF Len(history) >= n THEN history[Len(history) + 1 - n] ELSE EmptyStr

\* C5: starting from an empty store, whenever no record is between its two
\* writes the latest slot holds the string of the last record and the previous
\* slot the string of the record before it (both empty while there is none)
C5_LatestAndPrevious ==
    pc # "L271" =>
       /\ eeprom[LOG1_ADDR] = Written(1)
       /\ eeprom[LOG2_ADDR] = Written(2)

\* C5 witness: three records of two different seconds have been written
C5_Witness ==
    /\ Len(history) = 3 /\ history[1] # history[3] /\ pc = "L556"

\* C6: between the backup write and the write of the new string, the string
\* the latest slot held when storeCurrentTime was called is still in a slot
\* (in both, when it is not empty)
C6_NothingLostBetweenWrites ==
    pc = "L271" =>
       /\ Written(1) \in {eeprom[LOG1_ADDR], eeprom[LOG2_ADDR]}
       /\ Written(1) # EmptyStr =>
             eeprom[LOG1_ADDR] = Written(1) /\ eeprom[LOG2_ADDR] = Written(1)

\* C6 witness: a record stopped between its writes, both slots holding the
\* string of the record before it and the clock showing a later second
C6_Witness ==
    /\ pc = "L271" /\ Len(history) = 2
    /\ eeprom[LOG1_ADDR] = eeprom[LOG2_ADDR] /\ eeprom[LOG1_ADDR] = history[2]
    /\ TimeText(clock) # history[2]

\* the editable positions of "YYYY/MM/DD HH:MM:SS", in the order of the cursor
EditablePositions == <<0, 1, 2, 3, 5, 6, 8, 9, 11, 12, 14, 15, 17, 18>>

\* the editable position after pos in that order (pos itself at the last one)
NextEditable(pos) ==
    LET i == CHOOSE k \in 1..Len(EditablePositions) : EditablePositions[k] = pos
    IN  IF i < Len(EditablePositions) THEN EditablePositions[i + 1] ELSE pos

\* the polling loop consumes a pending advance trigger in this step
ConsumesAdvance == pc = "L529" /\ pc' # "L529" /\ nextPositionPressed

\* the value set_time is called with when the edit buffer is committed
Committed == MkTime(parseEditBufferToTm(editBuffer).tm)

\* C7 as claimed: the advance that commits the edit buffer is the 18th one
\* consumed since SET_TIME was entered
C7_EighteenAdvancesCommit ==
    [][(ConsumesAdvance /\ pc' = "L540") => advances' = 18]_vars

\* C7 amended: consuming the request to set the time puts the state at
\* SET_TIME with the cursor at 0; of the advance triggers consumed after that
\* the first 13 leave the state and the clock alone, and the 14th (one for each
\* editable position) calls set_time, once, with the value of the edit buffer,
\* and the state is IDLE from the next step of the loop on
C7_FourteenAdvancesCommit ==
    /\ [][/\ EnterSetTime =>
               state' = SET_TIME /\ currentEditPos' = 0 /\ advances' = 0 /\ setTimeCalls' = 0
          /\ ConsumesAdvance =>
               /\ state = SET_TIME /\ advances' = advances + 1
               /\ advances' <= Len(EditablePositions)
               /\ advances' < Len(EditablePositions) =>
                     /\ pc' # "L540" /\ state' = SET_TIME
                     /\ clock' = clock /\ setTimeCalls' = 0
               /\ advances' = Len(EditablePositions) =>
                     /\ pc' = "L540" /\ parseEditBufferToTm(editBuffer).ok
                     /\ clock' = Committed /\ setTimeCalls' = 1
          /\ (pc = "L540" /\ pc' # "L540") => state' = IDLE]_vars
    /\ [](advances < Len(EditablePositions) => setTimeCalls = 0)
    /\ [](advances = Len(EditablePositions) /\ pc # "L540" =>
             state # SET_TIME /\ setTimeCalls = 1)

\* C7 witness: the 14th advance has committed an edited time, another than the
\* clock showed, and the state is back at IDLE
C7_Witness ==
    /\ state = IDLE /\ advances = Len(EditablePositions) /\ setTimeCalls = 1
    /\ adjusts = 1 /\ TimeText(clock) = editBuffer /\ clock # MkTime(BootTime)

\* C8: consuming an advance trigger happens in SET_TIME; with the cursor not
\* at 18 it moves the cursor to the next editable position and leaves the state
\* and the clock alone; with the cursor at 18 it calls set_time once with the
\* parsed edit buffer and the next step of the loop sets the state to IDLE.
\* set_time is called, and SET_TIME is left, in no other step.
C8_AdvanceOrCommit ==
    [][/\ ConsumesAdvance =>
            /\ state = SET_TIME /\ state' = SET_TIME
            /\ currentEditPos # LAST_EDIT_POS =>
                  /\ currentEditPos' = NextEditable(currentEditPos)
                  /\ clock' = clock /\ setTimeCalls' = setTimeCalls
                  /\ pc' # "L540"
            /\ currentEditPos = LAST_EDIT_POS =>
                  /\ parseEditBufferToTm(editBuffer).ok
                  /\ clock' = Committed /\ setTimeCalls' = setTimeCalls + 1
                  /\ currentEditPos' = currentEditPos
                  /\ pc' = "L540"
       /\ (pc = "L540" /\ pc' # "L540") => state' = IDLE
       /\ (setTimeCalls' > setTimeCalls \/ (pc' = "L540" /\ pc # "L540")) =>
             ConsumesAdvance /\ currentEditPos = LAST_EDIT_POS
       /\ clock' # clock =>
             ClockTick \/ (ConsumesAdvance /\ currentEditPos = LAST_EDIT_POS)
       /\ (state = SET_TIME /\ state' # SET_TIME) => pc = "L540"]_vars

\* C8 witness: the advance consumed at position 18 has set the clock to an
\* edited buffer and the state is still to be set to IDLE
C8_Witness ==
    /\ pc = "L540" /\ currentEditPos = LAST_EDIT_POS /\ state = SET_TIME
    /\ adjusts = 1 /\ TimeText(clock) = editBuffer /\ setTimeCalls = 1

\* C9: the cursor is always one of the 14 editable positions of 0..18; it
\* changes only to 0 on entering SET_TIME and, on an advance, to the next
\* position in the order 0,1,2,3,5,6,8,9,11,12,14,15,17,18
C9_CursorEditable ==
    /\ [](currentEditPos \in (0..18) \ {4, 7, 10, 13, 16})
    /\ [][/\ EnterSetTime => currentEditPos' = 0
          /\ currentEditPos' # currentEditPos =>
                \/ EnterSetTime
                \/ /\ ConsumesAdvance
                   /\ \E i \in 1..(Len(EditablePositions) - 1) :
                         /\ currentEditPos = EditablePositions[i]
                         /\ currentEditPos' = EditablePositions[i + 1]]_vars

\* C9 witness: the cursor has passed the last separator on its twelfth advance
C9_Witness ==
    /\ state = SET_TIME /\ currentEditPos = 17 /\ advances = 12

\* the lengths of the months the editor goes by, January first
MonthLength == <<31, 28, 31, 30, 31, 30, 31, 31, 30, 31, 30, 31>>

\* the polling loop applies an adjust by delta to the edit buffer in this step
Adjusts(delta) ==
    \/ delta = 1 /\ pc = "L503" /\ pc' = "L516" /\ incrementPressed
    \/ delta = -1 /\ pc = "L516" /\ pc' = "L529" /\ decrementPressed

\* C10: an adjust with the cursor in the Month field takes month index 11 to 0
\* by +1 and 0 to 11 by -1 (and any other index to its neighbour), sets the
\* day to the length of the new month (28 for February, 30 for April, June,
\* September and November, 31 otherwise) if it exceeds that length, leaves
\* the day as it is otherwise, and leaves the other fields alone
C10_MonthAdjust ==
    [][\A delta \in {1, -1} :
          (Adjusts(delta) /\ getCurrentFieldName(currentEditPos) = "Month") =>
             LET old == parseEditBufferToTm(editBuffer).tm
                 new == parseEditBufferToTm(editBuffer').tm
             IN  /\ parseEditBufferToTm(editBuffer').ok
                 /\ new.tm_mon = IF old.tm_mon + delta > 11 THEN 0
                                 ELSE IF old.tm_mon + delta < 0 THEN 11
                                 ELSE old.tm_mon + delta
                 /\ new.tm_mday = IF old.tm_mday > MonthLength[new.tm_mon + 1]
                                  THEN MonthLength[new.tm_mon + 1]
                                  ELSE old.tm_mday
                 /\ new = [old EXCEPT !.tm_mon = new.tm_mon, !.tm_mday = new.tm_mday]]_vars

\* C10 witness: +1 with the cursor in the Month field has taken the snapshot
\* of January 31 of a leap year to February 28
C10_Witness ==
    /\ pc = "L516" /\ currentEditPos = 6
    /\ clock.tm_year = 128 /\ clock.tm_mon = 0 /\ clock.tm_mday = 31
    /\ editBuffer = TimeText([clock EXCEPT !.tm_mon = 1, !.tm_mday = 28])

\* C11: an adjust with the cursor in the Day field leaves the day in
\* 1..length of the month in the buffer (February 28): past the length it is
\* 1, below 1 it is the length, otherwise it moves by one; so also from day 29
\* of a February snapshot.  The other fields are left alone.
C11_DayAdjust ==
    [][\A delta \in {1, -1} :
          (Adjusts(delta) /\ getCurrentFieldName(currentEditPos) = "Day") =>
             LET old == parseEditBufferToTm(editBuffer).tm
                 new == parseEditBufferToTm(editBuffer').tm
                 len == MonthLength[old.tm_mon + 1]
             IN  /\ parseEditBufferToTm(editBuffer').ok
                 /\ new.tm_mday \in 1..len
                 /\ new.tm_mday = IF old.tm_mday + delta > len THEN 1
                                  ELSE IF old.tm_mday + delta < 1 THEN len
                                  ELSE old.tm_mday + delta
                 /\ new = [old EXCEPT !.tm_mday = new.tm_mday]]_vars

\* C11 witness: +1 with the cursor in the Day field has taken the snapshot of
\* February 29 to February 1
C11_Witness ==
    /\ pc = "L516" /\ currentEditPos = 9
    /\ clock.tm_year = 128 /\ clock.tm_mon = 1 /\ clock.tm_mday = 29
    /\ editBuffer = TimeText([clock EXCEPT !.tm_mday = 1])

\* a time that is valid under the table of month lengths (February 28)
ValidUnderTable(tm) ==
    /\ tm.tm_mon \in 0..11
    /\ tm.tm_mday \in 1..MonthLength[tm.tm_mon + 1]
    /\ tm.tm_hour \in 0..23
    /\ tm.tm_min \in 0..59
    /\ tm.tm_sec \in 0..59

\* the adjust by delta of the buffer leaves the year within four digits
YearStaysFourDigits(delta) ==
    LET tm == parseEditBufferToTm(editBuffer).tm
        year == tm.tm_year + YEAR_BASE
                  + (IF getCurrentFieldName(currentEditPos) = "Year" THEN delta ELSE 0)
    IN  year >= 1000 /\ year <= 9999

\* C12 as claimed, for the years of four digits: after every adjust of a
\* buffer that started as a snapshot of the clock, the edit buffer parses to a
\* time that is valid under the table of month lengths (month 1..12, day
\* 1..length with February 28, hour 0..23, minute and second 0..59)
C12_EditedTimestampValid ==
    [][\A delta \in {1, -1} :
          (Adjusts(delta) /\ YearStaysFourDigits(delta)) =>
             /\ parseEditBufferToTm(editBuffer').ok
             /\ ValidUnderTable(parseEditBufferToTm(editBuffer').tm)]_vars

\* C13 as claimed: every adjust press accepted in SET_TIME is applied once, in
\* that stay in SET_TIME.  A press posts its trigger and a consumed trigger is
\* one adjust, so: no accepted press finds its trigger still pending (it would
\* be coalesced with the press before it), and SET_TIME is not left with an
\* adjust trigger pending (it would not be applied under this cursor)
C13_AdjustPressesApplied ==
    [][/\ (Handler(incrementButton) /\ ~debouncing[incrementButton] /\ state = SET_TIME)
             => ~incrementPressed
       /\ (Handler(replayButton) /\ ~debouncing[replayButton] /\ state = SET_TIME)
             => ~decrementPressed
       /\ (state = SET_TIME /\ state' # SET_TIME)
             => ~incrementPressed' /\ ~decrementPressed']_vars

C15_ToggleNotOverwritten ==
    [][/\ (Handler(replayButton) /\ ~debouncing[replayButton] /\ state = IDLE) =>
             state' = DISPLAY_LOG /\ UNCHANGED <<eeprom, clock, editBuffer>>
       /\ (Handler(replayButton) /\ ~debouncing[replayButton] /\ state = DISPLAY_LOG) =>
             state' = IDLE /\ UNCHANGED <<eeprom, clock, editBuffer>>
       /\ (state = DISPLAY_LOG /\ state' # DISPLAY_LOG) => Handler(replayButton)]_vars

\* C16 as claimed, the part on the log write: the state leaves LOG_TIME only
\* at line 496, for IDLE, after the write of that pass (the strings written
\* are then as many as the presses that set LOG_TIME)
C16_LoggingTimeTransient ==
    [][(state = LOG_TIME /\ state' # LOG_TIME) =>
          /\ pc = "L496" /\ state' = IDLE
          /\ Len(history) = logPresses]_vars

\* C17 as claimed: every pass of the loop draws the screen of the state it
\* finds: the log view at line 498 in DISPLAY_LOG, the time at line 553 in
\* IDLE, and the edit view in a pass through the SET_TIME block that ends
\* still in SET_TIME, also when no trigger was pending
C17_RenderEveryIteration ==
    [][/\ (pc = "L498" /\ pc' = "L501" /\ state = DISPLAY_LOG) => "log" \in renders'
       /\ (pc = "L553" /\ pc' = "L556" /\ state = IDLE) => "time" \in renders'
       /\ (pc = "L529" /\ pc' = "L553") => "edit" \in renders']_vars

\* C17 amended: every pass draws the log view when it finds DISPLAY_LOG at
\* line 498 and the time when it finds IDLE at line 553; the edit view is drawn
\* on entering SET_TIME and after each trigger a pass consumes (after the
\* commit too, at line 549), and nowhere else: a pass through the SET_TIME
\* block that finds no trigger pending draws nothing
C17_RenderOnTrigger ==
    [][/\ (pc = "L498" /\ pc' = "L501" /\ state = DISPLAY_LOG) => "log" \in renders'
       /\ (pc = "L553" /\ pc' = "L556" /\ state = IDLE) => "time" \in renders'
       /\ EnterSetTime => "edit" \in renders'
       /\ \A delta \in {1, -1} : Adjusts(delta) => "edit" \in renders'
       /\ ConsumesAdvance => ("edit" \in renders' \/ pc' = "L540")
       /\ (pc = "L540" /\ pc' = "L553") => "edit" \in renders'
       /\ ("edit" \notin renders /\ "edit" \in renders') =>
             \/ EnterSetTime \/ Adjusts(1) \/ Adjusts(-1) \/ ConsumesAdvance
             \/ (pc = "L540" /\ pc' = "L553")
       /\ (pc = "L503" /\ pc' = "L516" /\ ~incrementPressed) => renders' = renders
       /\ (pc = "L516" /\ pc' = "L529" /\ ~decrementPressed) => renders' = renders
       /\ (pc = "L529" /\ pc' = "L553" /\ ~nextPositionPressed) => renders' = renders]_vars

\* C17 witness: a pass that found SET_TIME and no trigger is about to sleep
\* and has drawn nothing; the screen is the edit view of an earlier pass
C17_Witness ==
    /\ pc = "L556" /\ state = SET_TIME /\ renders = {} /\ display = "edit"
    /\ advances = 1 /\ posted.order = << >>

\* C18: the store is accessed by the polling loop only, one access in a step:
\* no handler, debounce callback or clock step reads or writes a slot or moves
\* the loop; a slot is written only by the backup at line 268 and the record at
\* line 275, one slot in a step; oldLog is read only at line 263 and the log
\* view reads the slots only at line 499
C18_StoreAccessSequential ==
    [][/\ ~PollingLoop => UNCHANGED <<eeprom, oldLog, pc, renders>>
       /\ eeprom' # eeprom =>
             \/ pc = "L265" /\ pc' = "L271"
             \/ pc = "L271" /\ pc' = "L496"
       /\ \A a, b \in {LOG1_ADDR, LOG2_ADDR} :
             (eeprom'[a] # eeprom[a] /\ eeprom'[b] # eeprom[b]) => a = b
       /\ oldLog' # oldLog => pc = "L263" /\ pc' = "L265"
       /\ ("log" \notin renders /\ "log" \in renders') => pc = "L498" /\ pc' = "L501"]_vars

\* C18 witness: a button press has been accepted while a record stood between
\* its backup write and its write of the new string
C18_Witness ==
    /\ pc = "L271" /\ eeprom[LOG2_ADDR] # EmptyStr /\ oldLog = eeprom[LOG1_ADDR]
    /\ debouncing[replayButton] /\ debouncing[setTimeButton] /\ timeSetRequested

\* the fixed layout "YYYY/MM/DD HH:MM:SS": 19 characters, digits at the
\* editable positions and the separators between them
FixedLayout(buffer) ==
    /\ Len(buffer) = TIME_STR_SIZE - 1
    /\ \A pos \in 0..(TIME_STR_SIZE - 2) :
          IF pos \in {4, 7} THEN buffer[pos + 1] = "/"
          ELSE IF pos = 10 THEN buffer[pos + 1] = " "
          ELSE IF pos \in {13, 16} THEN buffer[pos + 1] = ":"
          ELSE IsDigit(buffer[pos + 1])

\* C19 as claimed: an adjust with the cursor in the Year field changes the
\* year by delta at any value and leaves the other fields alone, and the edit
\* buffer afterwards holds that time in the fixed layout of 19 characters and
\* parses
C19_YearAdjust ==
    [][\A delta \in {1, -1} :
          (Adjusts(delta) /\ getCurrentFieldName(currentEditPos) = "Year") =>
             LET old == parseEditBufferToTm(editBuffer).tm
                 new == parseEditBufferToTm(editBuffer').tm
             IN  /\ parseEditBufferToTm(editBuffer').ok
                 /\ new = [old EXCEPT !.tm_year = @ + delta]
                 /\ FixedLayout(editBuffer')]_vars

\* C20 as claimed: when SET_TIME is entered no increment, decrement or
\* advance trigger is pending (the handlers raise them in SET_TIME only, so one
\* pending here was raised in an earlier stay in SET_TIME)
C20_NoStaleTriggers ==
    [][EnterSetTime =>
          /\ ~incrementPressed' /\ ~decrementPressed' /\ ~nextPositionPressed'
          /\ posted'.order = << >>]_vars

\* C21 as claimed: whenever the polling loop switches the state from IDLE to
\* SET_TIME, the state has been IDLE all the time since the set-time press
\* that raised the request: a pending timeSetRequested does not outlive a
\* visit to LOG_TIME or DISPLAY_LOG
C21_EnterDirectlyFromIdlePress ==
    [][(state = IDLE /\ state' = SET_TIME) => ~leftIdle]_vars

\* the polling loop calls updateSetTimeDisplay() in this step: on entering
\* SET_TIME, after an adjust, after an advance of the cursor, after the commit
RendersEditView ==
    \/ EnterSetTime
    \/ Adjusts(1)
    \/ Adjusts(-1)
    \/ (ConsumesAdvance /\ pc' = "L553")
    \/ (pc = "L540" /\ pc' = "L553")

\* C22 as claimed: the edit view is drawn only while the state is SET_TIME:
\* every call of updateSetTimeDisplay() by the polling loop finds the state
\* SET_TIME, also the one that follows a commit
C22_EditViewOnlyInSetTime ==
    [][RendersEditView => (state' = SET_TIME /\ "edit" \in renders')]_vars

\* C23: when the edit buffer does not parse, an adjust leaves the edit buffer
\* as it is, and the advance consumed at position 18 leaves the clock as it is
\* without a call of set_time; the next step of the loop sets the state to
\* IDLE as after any commit
C23_ParseFailure ==
    [][/\ ~parseEditBufferToTm(editBuffer).ok =>
             /\ \A delta \in {1, -1} : Adjusts(delta) => editBuffer' = editBuffer
             /\ (ConsumesAdvance /\ currentEditPos = LAST_EDIT_POS) =>
                   /\ clock' = clock /\ setTimeCalls' = setTimeCalls
                   /\ editBuffer' = editBuffer
                   /\ pc' = "L540" /\ state' = SET_TIME
       /\ (pc = "L540" /\ pc' # "L540") => state' = IDLE]_vars

\* C23 witness: a pass has consumed an adjust and then the advance at
\* position 18 with a buffer that does not parse: the state is IDLE, set_time
\* was not called and the clock is the one the snapshot was taken from
C23_Witness ==
    /\ state = IDLE /\ pc = "L553" /\ currentEditPos = LAST_EDIT_POS
    /\ ~parseEditBufferToTm(editBuffer).ok /\ editBuffer # EmptyStr
    /\ advances = 1 /\ setTimeCalls = 0 /\ posted.overtaken
    /\ ~incrementPressed /\ ~decrementPressed /\ ~nextPositionPressed
    /\ clock \in CommitTimes

\* C24: the state leaves SET_TIME only in the step after the commit, at line
\* 540 with the cursor at 18, and for IDLE; no handler, debounce callback or
\* clock step changes the state while it is SET_TIME, whatever the button; and
\* no step that starts or ends in SET_TIME writes a log slot
C24_SetTimeLeftOnlyByCommit ==
    [][/\ (state = SET_TIME /\ state' # SET_TIME) =>
             /\ pc = "L540" /\ pc' = "L553"
             /\ currentEditPos = LAST_EDIT_POS
             /\ state' = IDLE
       /\ \A b \in Buttons : (Handler(b) /\ state = SET_TIME) => state' = SET_TIME
       /\ (~PollingLoop /\ state = SET_TIME) => state' = SET_TIME
       /\ (state = SET_TIME \/ state' = SET_TIME) => eeprom' = eeprom
       /\ state = SET_TIME => pc \notin {"L263", "L265", "L271", "L496"}]_vars

\* C24 witness: in SET_TIME, after an advance of the cursor, presses of the
\* log button and of the toggle button have been accepted; the state is still
\* SET_TIME, the toggle press stands as a decrement and no slot is written
C24_Witness ==
    /\ state = SET_TIME /\ pc = "L516" /\ advances = 1 /\ currentEditPos = 1
    /\ debouncing[userButton] /\ debouncing[replayButton]
    /\ ~debouncing[setTimeButton]
    /\ decrementPressed /\ logPresses = 0
    /\ eeprom = [a \in {LOG1_ADDR, LOG2_ADDR} |-> EmptyStr]

====
